---- MODULE Spec2Model ----
(***************************************************************************)
(* pdfsplit: splitting a PDF into chunks of at most max_pages pages        *)
(* (split_pdf), discovering PDFs under files and directories (find_pdfs),   *)
(* and batch splitting (split_many, the batch command).                     *)
(*                                                                          *)
(* The state is the filesystem the functions touch plus a record of the    *)
(* last call: its arguments, what it returned or raised, the files it       *)
(* wrote, the sources it opened, the filesystem it started from, and the    *)
(* call before it with its outcome.                                         *)
(*                                                                          *)
(* A file name is a sequence of one-character strings, a path a sequence   *)
(* of names, so that suffix tests, lower-casing, stems and str.format are   *)
(* computed on the characters as the code computes them.                    *)
(***************************************************************************)
EXTENDS Integers, Sequences, FiniteSets, TLC

VARIABLES fs, posix, call, ret, log, opened, pre, last, runs

vars == <<fs, posix, call, ret, log, opened, pre, last, runs>>

(***************************************************************************)
(* Bounds of the model.                                                     *)
(***************************************************************************)
MaxT == 4
MaxPagesArg == 3
MaxRuns == 2
MaxInputs == 2

(* The page count and chunk size of tests/test_split.py. *)
TestPages == 23
TestMaxPages == 10

(***************************************************************************)
(* Strings.                                                                 *)
(***************************************************************************)
UpperChars == <<"A","B","C","D","E","F","G","H","I","J","K","L","M",
                "N","O","P","Q","R","S","T","U","V","W","X","Y","Z">>
LowerChars == <<"a","b","c","d","e","f","g","h","i","j","k","l","m",
                "n","o","p","q","r","s","t","u","v","w","x","y","z">>

LowerChar(c) ==
    IF \E i \in 1..Len(UpperChars) : UpperChars[i] = c
    THEN LowerChars[CHOOSE i \in 1..Len(UpperChars) : UpperChars[i] = c]
    ELSE c

(* str.lower() *)
Lower(s) == [i \in 1..Len(s) |-> LowerChar(s[i])]

(* str.endswith(suf) *)
EndsWith(s, suf) ==
    /\ Len(s) >= Len(suf)
    /\ SubSeq(s, Len(s) - Len(suf) + 1, Len(s)) = suf

(* str.rfind(c), 1-based; 0 when c does not occur *)
RFind(s, c) ==
    IF \E i \in 1..Len(s) : s[i] = c
    THEN CHOOSE i \in 1..Len(s) : s[i] = c /\ \A j \in (i+1)..Len(s) : s[j] # c
    ELSE 0

DotPdf == <<".", "p", "d", "f">>

None == <<>>

Min(a, b) == IF a <= b THEN a ELSE b

(***************************************************************************)
(* pathlib: name, parent, suffix, stem, joining.                            *)
(***************************************************************************)
PathName(p) == p[Len(p)]
Parent(p) == SubSeq(p, 1, Len(p) - 1)
Join(dir, name) == Append(dir, name)

(* PurePath.suffix: from the last dot, unless the dot is first or last *)
Suffix(name) ==
    LET i == RFind(name, ".")
    IN IF 1 < i /\ i < Len(name) THEN SubSeq(name, i, Len(name)) ELSE <<>>

(* PurePath.stem *)
Stem(name) ==
    LET i == RFind(name, ".")
    IN IF 1 < i /\ i < Len(name) THEN SubSeq(name, 1, i - 1) ELSE name

(***************************************************************************)
(* The filesystem: a function from the existing paths to their nodes.       *)
(***************************************************************************)
DirNode == [kind |-> "dir", pages |-> <<>>, pw |-> <<>>, meta |-> <<>>, target |-> <<>>]
PdfNode(pages, pw, meta) ==
    [kind |-> "pdf", pages |-> pages, pw |-> pw, meta |-> meta, target |-> <<>>]
OtherNode == [kind |-> "other", pages |-> <<>>, pw |-> <<>>, meta |-> <<>>, target |-> <<>>]
LinkNode(t) == [kind |-> "link", pages |-> <<>>, pw |-> <<>>, meta |-> <<>>, target |-> t]

RECURSIVE Normalise(_)
(* collapsing "x/.." pairs, as the operating system does when it walks a path *)
Normalise(p) ==
    IF \E i \in 2..Len(p) : p[i] = <<".", ".">> /\ p[i-1] # <<".", ".">>
    THEN LET i == CHOOSE k \in 2..Len(p) :
                      /\ p[k] = <<".", ".">> /\ p[k-1] # <<".", ".">>
                      /\ \A j \in 2..(k-1) : ~(p[j] = <<".", ".">> /\ p[j-1] # <<".", ".">>)
         IN Normalise(SubSeq(p, 1, i - 2) \o SubSeq(p, i + 1, Len(p)))
    ELSE p

(* Path.resolve(): the canonical path, symbolic links followed *)
Resolve(f, p) ==
    LET n == Normalise(p)
    IN IF n \in DOMAIN f /\ f[n].kind = "link" THEN f[n].target ELSE n

Exists(f, p) == Resolve(f, p) \in DOMAIN f
IsFile(f, p) == Exists(f, p) /\ f[Resolve(f, p)].kind \in {"pdf", "other"}
IsDir(f, p) == Exists(f, p) /\ f[Resolve(f, p)].kind = "dir"

Prefixes(p) == {SubSeq(p, 1, k) : k \in 1..Len(p)}

(* Path.mkdir(parents=True, exist_ok=True) *)
MkdirError(f, dir) ==
    IF Exists(f, dir) /\ ~IsDir(f, dir) THEN "FileExistsError"
    ELSE IF \E q \in Prefixes(dir) : q # dir /\ Exists(f, q) /\ ~IsDir(f, q)
         THEN "NotADirectoryError"
         ELSE ""

Mkdir(f, dir) ==
    LET new == {q \in Prefixes(dir) : ~Exists(f, q)}
    IN [q \in DOMAIN f \cup new |-> IF q \in DOMAIN f THEN f[q] ELSE DirNode]

(* writing a regular file, through a symbolic link when the path is one *)
WriteFile(f, p, node) ==
    LET r == Resolve(f, p)
    IN [q \in DOMAIN f \cup {r} |-> IF q = r THEN node ELSE f[q]]

(***************************************************************************)
(* str.format on the naming pattern.  A pattern is a sequence of tokens:    *)
(* literal text, or a replacement field {name} / {name:0Wd}.                *)
(***************************************************************************)
Lit(text) == [kind |-> "lit", text |-> text, name |-> "", width |-> 0]
Field(name, width) == [kind |-> "field", text |-> <<>>, name |-> name, width |-> width]

Digits == <<"0", "1", "2", "3", "4", "5", "6", "7", "8", "9">>

RECURSIVE Dec(_)
(* the decimal digits of a natural number *)
Dec(n) == IF n < 10 THEN <<Digits[n + 1]>> ELSE Dec(n \div 10) \o <<Digits[(n % 10) + 1]>>

RECURSIVE ZeroPad(_, _)
(* the format spec 0Wd: zeros on the left up to width W, never truncating *)
ZeroPad(s, width) == IF Len(s) >= width THEN s ELSE ZeroPad(<<"0">> \o s, width)

FieldNames == {"stem", "i", "i0", "start", "end"}

(* a field the call does not pass makes str.format raise KeyError *)
FormatRaises(pattern) ==
    \E k \in 1..Len(pattern) : pattern[k].kind = "field" /\ pattern[k].name \notin FieldNames

FormatToken(tok, v) ==
    IF tok.kind = "lit" THEN tok.text
    ELSE IF tok.name = "stem" THEN v.stem
    ELSE ZeroPad(Dec(v[tok.name]), tok.width)

RECURSIVE Format(_, _)
Format(pattern, v) ==
    IF pattern = <<>> THEN <<>>
    ELSE FormatToken(Head(pattern), v) \o Format(Tail(pattern), v)

(***************************************************************************)
(* core.py                                                                  *)
(***************************************************************************)
ensure_pdf_suffix(name) == IF EndsWith(Lower(name), DotPdf) THEN name ELSE name \o DotPdf

(* "{stem}_part_{i:02d}.pdf" *)
DefaultPattern ==
    <<Field("stem", 0), Lit(<<"_", "p", "a", "r", "t", "_">>), Field("i", 2), Lit(DotPdf)>>

(* output_pattern or the default *)
Pattern(output_pattern) == IF output_pattern = <<>> THEN DefaultPattern ELSE output_pattern

ErrMaxPages == "ValueError: max_pages must be > 0"
ErrEncrypted == "ValueError: PDF is encrypted: please provide a password."
ErrWrongPassword == "ValueError: Wrong password for encrypted PDF."
ErrOutputExists == "FileExistsError: Output exists"
ErrFormat == "KeyError"
ErrNotFound == "FileNotFoundError"
ErrNotPdf == "FileDataError"

(* the validation of max_pages *)
BadMaxPages(max_pages) == max_pages <= 0

(* a variant that does not look at what authenticate returns *)
AuthErrorUnchecked(src, password) ==
    IF src.pw # <<>> /\ password = <<>> THEN ErrEncrypted ELSE ""

(* src.is_encrypted, not password, src.authenticate(password) *)
AuthError(src, password) ==
    IF src.pw # <<>>
    THEN IF password = <<>> THEN ErrEncrypted
         ELSE IF password # src.pw THEN ErrWrongPassword
         ELSE ""
    ELSE ""

(* a variant that rounds down *)
PartsFloor(total, max_pages) == total \div max_pages

(* math.ceil(total / max_pages) *)
Parts(total, max_pages) == (total + max_pages - 1) \div max_pages

ChunkStart0(idx, max_pages) == idx * max_pages
(* a variant that forgets that to_page is inclusive *)
ChunkEnd0Exclusive(start0, max_pages, total) == Min(start0 + max_pages, total)

ChunkEnd0(start0, max_pages, total) == Min(start0 + max_pages, total) - 1

OutPath(dir, pattern, stem, idx, start1, end1) ==
    Join(dir, ensure_pdf_suffix(
        Format(pattern, [stem |-> stem, i |-> idx + 1, i0 |-> idx,
                         start |-> start1, end |-> end1])))

(* variants: the check left out, the flag inverted *)
OutputNeverBlocked(f, out_path, overwrite) == FALSE
OutputBlockedInverted(f, out_path, overwrite) == Exists(f, out_path) /\ overwrite

(* out_path.exists() and not overwrite *)
OutputBlocked(f, out_path, overwrite) == Exists(f, out_path) /\ ~overwrite

(* the new document: insert_pdf(src, from_page, to_page), which takes a   *)
(* to_page past the last page as the last page, and set_metadata           *)
PartDoc(src, start0, end0, keep_metadata) ==
    PdfNode(SubSeq(src.pages, start0 + 1, Min(end0, Len(src.pages) - 1) + 1), <<>>,
            IF keep_metadata THEN src.meta ELSE <<>>)

(* a variant that removes the chunks written so far before raising *)
RaiseCleanup(f, err, wrote, didOpen) ==
    LET gone == {Resolve(f, wrote[k].path) : k \in 1..Len(wrote)}
    IN [fs |-> [q \in DOMAIN f \ gone |-> f[q]], err |-> err, outputs |-> <<>>,
        log |-> wrote, opened |-> didOpen]

(* an exception leaves the function: no list is returned *)
Raise(f, err, wrote, didOpen) ==
    [fs |-> f, err |-> err, outputs |-> <<>>, log |-> wrote, opened |-> didOpen]

RECURSIVE SplitLoop(_, _, _, _, _, _, _)
(* the loop over the chunks, from chunk idx on *)
SplitLoop(f, a, src, dir, idx, outputs, wrote) ==
    LET total == Len(src.pages)
        start0 == ChunkStart0(idx, a.max_pages)
        end0 == ChunkEnd0(start0, a.max_pages, total)
        start1 == start0 + 1
        end1 == end0 + 1
        pattern == Pattern(a.output_pattern)
        out_path == OutPath(dir, pattern, Stem(PathName(a.input_pdf)), idx, start1, end1)
        part_doc == PartDoc(src, start0, end0, a.keep_metadata)
        entry == [src |-> a.input_pdf, idx |-> idx, path |-> out_path, start0 |-> start0, end0 |-> end0,
                  existed |-> Exists(f, out_path), doc |-> part_doc]
    IN IF idx >= Parts(total, a.max_pages)
       THEN [fs |-> f, err |-> "", outputs |-> outputs, log |-> wrote, opened |-> TRUE]
       ELSE IF FormatRaises(pattern) THEN Raise(f, ErrFormat, wrote, TRUE)
       ELSE IF OutputBlocked(f, out_path, a.overwrite)
            THEN Raise(f, ErrOutputExists, wrote, TRUE)
       ELSE SplitLoop(WriteFile(f, out_path, part_doc), a, src, dir, idx + 1,
                      Append(outputs, out_path), Append(wrote, entry))

(* split_pdf: the filesystem it leaves, what it raises or returns, the    *)
(* chunks it wrote, and whether it got as far as opening the source        *)
SplitPdf(f, a) ==
    LET dir == IF a.output_dir = None THEN Parent(a.input_pdf) ELSE a.output_dir
        f1 == Mkdir(f, dir)
        src == f1[Resolve(f1, a.input_pdf)]
    IN IF MkdirError(f, dir) # "" THEN Raise(f, MkdirError(f, dir), <<>>, FALSE)
       ELSE IF BadMaxPages(a.max_pages) THEN Raise(f1, ErrMaxPages, <<>>, FALSE)
       ELSE IF ~IsFile(f1, a.input_pdf) THEN Raise(f1, ErrNotFound, <<>>, TRUE)
       ELSE IF src.kind # "pdf" THEN Raise(f1, ErrNotPdf, <<>>, TRUE)
       ELSE IF AuthError(src, a.password) # ""
            THEN Raise(f1, AuthError(src, a.password), <<>>, TRUE)
       ELSE SplitLoop(f1, a, src, dir, 0, <<>>, <<>>)

(***************************************************************************)
(* The files and arguments the calls are tried on.                          *)
(***************************************************************************)
D == <<<<"d">>>>
O == <<<<"o">>>>
SrcA == Join(D, <<"a", ".", "p", "d", "f">>)
SrcE == Join(D, <<"e", ".", "p", "d", "f">>)
Part02 == <<"a", "_", "p", "a", "r", "t", "_", "0", "2", ".", "p", "d", "f">>
XPdf == <<"x", ".", "p", "d", "f">>

Key == <<"k">>
WrongKey == <<"w">>
Meta == <<"m">>

(* a file that was there before any call *)
OldDoc == PdfNode(<<99>>, <<>>, <<>>)

(* the filesystem holding the given <<path, node>> pairs *)
FsOf(S) == [p \in {e[1] : e \in S} |-> (CHOOSE e \in S : e[1] = p)[2]]

PageIds(first, n) == [i \in 1..n |-> first + i - 1]

(* what may lie at output paths before the first call *)
SplitBlockers ==
    { {},
      {<<Join(D, Part02), OldDoc>>},
      {<<O, DirNode>>},
      {<<O, DirNode>>, <<Join(O, Part02), OldDoc>>},
      {<<O, DirNode>>, <<Join(O, XPdf), OldDoc>>} }

SplitPageCounts == (1..MaxT) \cup {TestPages}

SplitFs(T, B) ==
    FsOf({<<D, DirNode>>,
          <<SrcA, PdfNode(PageIds(1, T), <<>>, Meta)>>,
          <<SrcE, PdfNode(PageIds(1, T), Key, Meta)>>} \cup B)

SplitPatterns ==
    { None,
      <<Lit(<<"x">>)>>,
      <<Field("start", 0), Lit(<<"-">>), Field("end", 0)>>,
      <<Field("i0", 0), Lit(<<".", "P", "D", "F">>)>>,
      <<Field("stem", 0), Field("page", 0)>> }

(* a password matters only for the encrypted source *)
SplitSources ==
    {<<SrcA, None>>, <<SrcE, None>>, <<SrcE, Key>>, <<SrcE, WrongKey>>}

SplitArgs ==
    { [input_pdf |-> sp[1], max_pages |-> m, output_dir |-> o, output_pattern |-> pat,
       password |-> sp[2], keep_metadata |-> km, overwrite |-> ow] :
        sp \in SplitSources, m \in (0..MaxPagesArg) \cup {TestMaxPages},
        o \in {None, O}, pat \in SplitPatterns, km \in BOOLEAN, ow \in BOOLEAN }

NoCall == [op |-> "none", a |-> <<>>]

InitCommon ==
    /\ call = NoCall
    /\ ret = [err |-> "", outputs |-> <<>>]
    /\ log = <<>>
    /\ opened = <<>>
    /\ pre = fs
    /\ last = [call |-> NoCall, ret |-> [err |-> "", outputs |-> <<>>]]
    /\ runs = 0

InitSplit ==
    /\ \E T \in SplitPageCounts, B \in SplitBlockers : fs = SplitFs(T, B)
    /\ posix = TRUE
    /\ InitCommon

(* one call of split_pdf *)
DoSplit(a) ==
    LET r == SplitPdf(fs, a)
    IN /\ fs' = r.fs
       /\ call' = [op |-> "split_pdf", a |-> a]
       /\ ret' = [err |-> r.err, outputs |-> r.outputs]
       /\ log' = r.log
       /\ opened' = IF r.opened THEN <<a.input_pdf>> ELSE <<>>
       /\ pre' = fs
       /\ last' = [call |-> call, ret |-> ret]
       /\ runs' = runs + 1
       /\ UNCHANGED posix

(* the first call, with any arguments *)
Split ==
    /\ runs = 0
    /\ \E a \in SplitArgs : DoSplit(a)

(* the same call again, overwrite apart *)
Rerun ==
    /\ call.op = "split_pdf"
    /\ runs < MaxRuns
    /\ \E ow \in BOOLEAN : DoSplit([call.a EXCEPT !.overwrite = ow])

NextSplit == Split \/ Rerun

SpecSplit == InitSplit /\ [][NextSplit]_vars

(***************************************************************************)
(* find_pdfs                                                                *)
(***************************************************************************)
RECURSIVE FnMatch(_, _)
(* fnmatch of a name against a pattern of literal characters, * and ? *)
FnMatch(name, pat) ==
    IF pat = <<>> THEN name = <<>>
    ELSE IF Head(pat) = "*"
         THEN \E k \in 0..Len(name) : FnMatch(SubSeq(name, k + 1, Len(name)), Tail(pat))
         ELSE /\ name # <<>>
              /\ Head(pat) = "?" \/ Head(pat) = Head(name)
              /\ FnMatch(Tail(name), Tail(pat))

(* pathlib matches glob patterns case-sensitively on POSIX and            *)
(* case-insensitively on Windows                                            *)
GlobMatch(psx, name, pat) ==
    IF psx THEN FnMatch(name, pat) ELSE FnMatch(Lower(name), Lower(pat))

IsPrefix(d, q) == Len(d) < Len(q) /\ SubSeq(q, 1, Len(d)) = d

(* the entries p.rglob(pattern) / p.glob(pattern) yields, as a set *)
GlobSet(f, psx, p, recursive, pat) ==
    LET d == Resolve(f, p)
    IN { q \in DOMAIN f :
           /\ IF recursive THEN IsPrefix(d, q) ELSE Len(q) > 0 /\ Parent(q) = d
           /\ GlobMatch(psx, PathName(q), pat) }

RECURSIVE Perms(_)
Perms(S) == IF S = {} THEN {<<>>} ELSE UNION {{<<x>> \o t : t \in Perms(S \ {x})} : x \in S}

(* the subsequence of seq of the elements that are in S *)
RECURSIVE SelectIn(_, _)
SelectIn(seq, S) ==
    IF seq = <<>> THEN <<>>
    ELSE IF Head(seq) \in S THEN <<Head(seq)>> \o SelectIn(Tail(seq), S)
         ELSE SelectIn(Tail(seq), S)

(* the entries the globber yields for directory p, in the order the       *)
(* filesystem enumerates them, as paths below p                             *)
Glob(f, psx, p, recursive, pat, order) ==
    LET d == Resolve(f, p)
        hits == SelectIn(order, GlobSet(f, psx, p, recursive, pat))
    IN [k \in 1..Len(hits) |-> p \o SubSeq(hits[k], Len(d) + 1, Len(hits[k]))]

(* what one input path adds to found *)
FoundAt(f, psx, p, recursive, pat, order) ==
    IF IsFile(f, p) /\ Lower(Suffix(PathName(p))) = DotPdf THEN <<p>>
    ELSE IF IsDir(f, p)
         THEN LET g == Glob(f, psx, p, recursive, pat, order)
              IN SelectIn(g, {x \in {g[k] : k \in 1..Len(g)} : IsFile(f, x)})
         ELSE <<>>

RECURSIVE Found(_, _, _, _, _, _)
(* the first loop of find_pdfs *)
Found(f, psx, paths, recursive, pat, order) ==
    IF paths = <<>> THEN <<>>
    ELSE FoundAt(f, psx, Head(paths), recursive, pat, order)
         \o Found(f, psx, Tail(paths), recursive, pat, order)

(* a variant that compares the path as given *)
IsNewUnresolved(f, x, seen) == x \notin seen

(* f.resolve() not in seen *)
IsNew(f, x, seen) == Resolve(f, x) \notin seen

RECURSIVE UniqueFrom(_, _, _, _)
UniqueFrom(f, found, seen, unique) ==
    IF found = <<>> THEN unique
    ELSE IF IsNew(f, Head(found), seen)
         THEN UniqueFrom(f, Tail(found), seen \cup {Resolve(f, Head(found))},
                         Append(unique, Head(found)))
         ELSE UniqueFrom(f, Tail(found), seen, unique)

(* the second loop of find_pdfs: unique, in stable order *)
Unique(f, found) == UniqueFrom(f, found, {}, <<>>)

FindPdfs(f, psx, paths, recursive, pat, order) ==
    Unique(f, Found(f, psx, paths, recursive, pat, order))

(* the entries some directory among the inputs enumerates *)
Listed(f, psx, paths, recursive, pat) ==
    UNION { IF IsDir(f, paths[k]) THEN GlobSet(f, psx, paths[k], recursive, pat) ELSE {} :
              k \in 1..Len(paths) }

StarPdf == <<"*", ".", "p", "d", "f">>

(***************************************************************************)
(* split_many and the batch command                                         *)
(***************************************************************************)
ExitNoPdfs == "Exit: 0"

(* the split_pdf call made for one discovered pdf *)
SplitCall(a, pdf) ==
    [input_pdf |-> pdf, max_pages |-> a.max_pages,
     output_dir |-> IF a.output_dir # None THEN a.output_dir ELSE Parent(pdf),
     output_pattern |-> a.output_pattern, password |-> a.password,
     keep_metadata |-> a.keep_metadata, overwrite |-> a.overwrite]

(* a variant that swallows the error and goes on with the next pdf *)
PropagatesNever(err) == FALSE

(* an exception of split_pdf is not caught: it ends the loop over the pdfs *)
Propagates(err) == err # ""

RECURSIVE BatchLoop(_, _, _, _, _, _, _)
(* the loop over the discovered pdfs, from the k-th on *)
BatchLoop(f, pdfs, a, k, outputs, wrote, calls) ==
    IF k > Len(pdfs)
    THEN [fs |-> f, err |-> "", outputs |-> outputs, log |-> wrote, opened |-> calls]
    ELSE LET r == SplitPdf(f, SplitCall(a, pdfs[k]))
         IN IF Propagates(r.err)
            THEN [fs |-> r.fs, err |-> r.err, outputs |-> <<>>, log |-> wrote \o r.log,
                  opened |-> Append(calls, pdfs[k])]
            ELSE BatchLoop(r.fs, pdfs, a, k + 1, outputs \o r.outputs, wrote \o r.log,
                           Append(calls, pdfs[k]))

(* split_many: find_pdfs with the default glob, then the loop *)
SplitMany(f, psx, a, order) ==
    BatchLoop(f, FindPdfs(f, psx, a.inputs, a.recursive, StarPdf, order), a, 1,
              <<>>, <<>>, <<>>)

(* the batch command: find_pdfs with --glob, exit 0 when nothing is found *)
BatchCmd(f, psx, a, order) ==
    LET pdfs == FindPdfs(f, psx, a.inputs, a.recursive, a.glob, order)
    IN IF pdfs = <<>>
       THEN [fs |-> f, err |-> ExitNoPdfs, outputs |-> <<>>, log |-> <<>>, opened |-> <<>>]
       ELSE BatchLoop(f, pdfs, a, 1, <<>>, <<>>, <<>>)

(***************************************************************************)
(* The directory tree find_pdfs and the batch calls are tried on.           *)
(***************************************************************************)
SubPdf == <<"s", ".", "p", "d", "f">>
SubPlain == <<"s">>
NameA == <<"a", ".", "p", "d", "f">>
SrcB == Join(D, <<"b", ".", "P", "D", "F">>)
TxtC == Join(D, <<"c", ".", "t", "x", "t">>)
LinkL == Join(D, <<"l", ".", "p", "d", "f">>)
Missing == Join(D, <<"z", ".", "p", "d", "f">>)
UpperGlob == <<"*", ".", "P", "D", "F">>
CGlob == <<"c", "*">>

(* d/a.pdf, d/b.PDF (encrypted), d/c.txt, d/<sub>/a.pdf and, with links,   *)
(* d/l.pdf -> d/a.pdf                                                       *)
TreeFs(sub, links, extra) ==
    FsOf({<<D, DirNode>>,
          <<SrcA, PdfNode(PageIds(1, 3), <<>>, Meta)>>,
          <<SrcB, PdfNode(PageIds(11, 2), Key, Meta)>>,
          <<TxtC, OtherNode>>,
          <<Join(D, sub), DirNode>>,
          <<Join(Join(D, sub), NameA), PdfNode(PageIds(21, 2), <<>>, Meta)>>}
         \cup (IF links THEN {<<LinkL, LinkNode(SrcA)>>} ELSE {})
         \cup extra)

(* sequences of at most n elements of S *)
SeqsUpTo(S, n) == UNION {[1..k -> S] : k \in 0..n}

FindPaths ==
    {D, Join(D, SubPdf), SrcB, TxtC, LinkL, Missing,
     Join(Join(D, SubPdf), <<".", ".">>) \o <<NameA>>}

InitFind ==
    /\ \E links \in BOOLEAN : fs = TreeFs(SubPdf, links, {})
    /\ posix \in BOOLEAN
    /\ InitCommon

(* one call of find_pdfs, the filesystem enumerating its entries in some order *)
Find ==
    /\ runs = 0
    /\ \E paths \in SeqsUpTo(FindPaths, MaxInputs), recursive \in BOOLEAN,
          pat \in {StarPdf, UpperGlob, CGlob} :
         \E order \in Perms(Listed(fs, posix, paths, recursive, pat)) :
            /\ call' = [op |-> "find_pdfs",
                        a |-> [paths |-> paths, recursive |-> recursive,
                               pattern |-> pat, order |-> order]]
            /\ ret' = [err |-> "",
                       outputs |-> FindPdfs(fs, posix, paths, recursive, pat, order)]
            /\ log' = <<>>
            /\ opened' = <<>>
            /\ pre' = fs
            /\ last' = [call |-> call, ret |-> ret]
            /\ runs' = runs + 1
            /\ UNCHANGED <<fs, posix>>

NextFind == Find

SpecFind == InitFind /\ [][NextFind]_vars

BatchInputs ==
    { <<D>>, <<Join(D, SubPlain), D>>, <<SrcB, D>>, <<Join(Join(D, SubPlain), NameA), SrcA>> }

BatchArgs ==
    { [inputs |-> ins, recursive |-> rec, glob |-> g, max_pages |-> m, output_dir |-> o,
       output_pattern |-> pat, password |-> pw, keep_metadata |-> km, overwrite |-> ow] :
        ins \in BatchInputs, rec \in BOOLEAN, g \in {StarPdf, UpperGlob}, m \in 1..2,
        o \in {None, O}, pat \in {None, <<Lit(<<"x">>)>>}, pw \in {None, Key},
        km \in BOOLEAN, ow \in BOOLEAN }

InitBatch ==
    /\ \E extra \in {{}, {<<O, DirNode>>, <<Join(O, Part02), OldDoc>>}} :
          fs = TreeFs(SubPlain, FALSE, extra)
    /\ posix \in BOOLEAN
    /\ InitCommon

DoBatch(op, a, order, r) ==
    /\ fs' = r.fs
    /\ call' = [op |-> op, a |-> a, order |-> order]
    /\ ret' = [err |-> r.err, outputs |-> r.outputs]
    /\ log' = r.log
    /\ opened' = r.opened
    /\ pre' = fs
    /\ last' = [call |-> call, ret |-> ret]
    /\ runs' = runs + 1
    /\ UNCHANGED posix

(* one call of split_many; it always searches with the default glob *)
CallSplitMany ==
    /\ runs = 0
    /\ \E a \in {b \in BatchArgs : b.glob = StarPdf} :
         \E order \in Perms(Listed(fs, posix, a.inputs, a.recursive, StarPdf)) :
            DoBatch("split_many", a, order, SplitMany(fs, posix, a, order))

(* one run of the batch command *)
CallBatch ==
    /\ runs = 0
    /\ \E a \in BatchArgs :
         \E order \in Perms(Listed(fs, posix, a.inputs, a.recursive, a.glob)) :
            DoBatch("batch", a, order, BatchCmd(fs, posix, a, order))

NextBatch == CallSplitMany \/ CallBatch

SpecBatch == InitBatch /\ [][NextBatch]_vars

(***************************************************************************)
(* Properties.  What they read of the last call.                            *)
(***************************************************************************)
IsSplit == call.op = "split_pdf"

(* the source of the last split_pdf call, as it was when the call began *)
SrcDoc == pre[Resolve(pre, call.a.input_pdf)]
SrcTotal == Len(SrcDoc.pages)

(* ceil(t / m): the least n with n * m >= t *)
CeilDiv(t, m) == CHOOSE n \in 0..t : n * m >= t /\ (n - 1) * m < t

(* the page count found on opening the i-th returned path *)
PagesAt(i) == Len(fs[Resolve(fs, ret.outputs[i])].pages)

RECURSIVE SumTo(_)
SumTo(n) == IF n = 0 THEN 0 ELSE PagesAt(n) + SumTo(n - 1)

Completed == IsSplit /\ ret.err = "" /\ call.a.max_pages > 0 /\ SrcTotal > 0

PartitionHolds ==
    LET T == SrcTotal
        m == call.a.max_pages
        parts == CeilDiv(T, m)
    IN /\ Len(ret.outputs) = parts
       /\ SumTo(parts) = T
       /\ \A i \in 1..(parts - 1) : PagesAt(i) = m
       /\ PagesAt(parts) = T - m * (parts - 1)

DistinctOutputs ==
    \A i, j \in 1..Len(ret.outputs) :
        i # j => Resolve(fs, ret.outputs[i]) # Resolve(fs, ret.outputs[j])

(* C1, as claimed: every completed split_pdf call on T > 0 pages with       *)
(* maxPages > 0, whatever the naming pattern and overwrite setting, returns *)
(* ceil(T/maxPages) outputs whose page counts sum to T, all but the last    *)
(* holding maxPages pages and the last T - maxPages*(parts-1).              *)
C1_AnyPattern == Completed => PartitionHolds

(* C1, amended: the same, for the calls whose naming pattern gives every    *)
(* chunk an output path of its own (as the default pattern does).           *)
C1_Partition == (Completed /\ DistinctOutputs) => PartitionHolds

(* the 23-page document split by 10 into page counts [10, 10, 3] *)
C1_Witness ==
    /\ Completed /\ DistinctOutputs
    /\ SrcTotal = TestPages /\ call.a.max_pages = TestMaxPages
    /\ Len(ret.outputs) = 3
    /\ <<PagesAt(1), PagesAt(2), PagesAt(3)>> = <<10, 10, 3>>

(* the 1-based page range split_pdf computes for chunk idx *)
RangeOf(idx) ==
    LET start0 == ChunkStart0(idx, call.a.max_pages)
    IN [start |-> start0 + 1, end |-> ChunkEnd0(start0, call.a.max_pages, SrcTotal) + 1]

ReachedChunks ==
    /\ IsSplit /\ call.a.max_pages >= 1
    /\ Resolve(pre, call.a.input_pdf) \in DOMAIN pre
    /\ SrcDoc.kind = "pdf" /\ SrcTotal >= 1

(* C2: for T >= 1 and maxPages >= 1 the chunk ranges of split_pdf start at  *)
(* page 1, each starts one page after the one before ends, the last ends at *)
(* T, every chunk has start <= end, and the last has 1..maxPages pages; the *)
(* chunks a call extracted are those ranges, in order.                      *)
C2_ChunksCover ==
    ReachedChunks =>
        LET T == SrcTotal
            m == call.a.max_pages
            parts == CeilDiv(T, m)
            size(idx) == RangeOf(idx).end - RangeOf(idx).start + 1
        IN /\ RangeOf(0).start = 1
           /\ \A idx \in 0..(parts - 2) : RangeOf(idx + 1).start = RangeOf(idx).end + 1
           /\ RangeOf(parts - 1).end = T
           /\ \A idx \in 0..(parts - 1) : RangeOf(idx).start <= RangeOf(idx).end
           /\ size(parts - 1) >= 1 /\ size(parts - 1) <= m
           /\ \A k \in 1..Len(log) :
                 /\ log[k].idx = k - 1
                 /\ log[k].doc.pages =
                       SubSeq(SrcDoc.pages, RangeOf(k - 1).start, RangeOf(k - 1).end)
           /\ ret.err = "" => Len(log) = parts

(* a completed call with three chunks, the last one short *)
C2_Witness ==
    /\ ReachedChunks /\ ret.err = ""
    /\ Len(log) = 3
    /\ RangeOf(2).end - RangeOf(2).start + 1 < call.a.max_pages

(* the directory the last split_pdf call writes to *)
OutDir == IF call.a.output_dir = None THEN Parent(call.a.input_pdf) ELSE call.a.output_dir

(* the output path of chunk idx of the last split_pdf call *)
PathOf(idx) ==
    OutPath(OutDir, Pattern(call.a.output_pattern), Stem(PathName(call.a.input_pdf)),
            idx, RangeOf(idx).start, RangeOf(idx).end)

Authenticated == SrcDoc.pw = <<>> \/ call.a.password = SrcDoc.pw

(* the call got to its loop over the chunks and could name them *)
InLoop ==
    /\ ReachedChunks /\ Authenticated
    /\ ~FormatRaises(Pattern(call.a.output_pattern))

(* chunk idx finds its output path taken: by a file that was there before  *)
(* the call, or by an earlier chunk of the call                             *)
Taken(idx) ==
    \/ Exists(pre, PathOf(idx))
    \/ \E j \in 0..(idx - 1) : PathOf(j) = PathOf(idx)

Unchanged(S) == \A q \in S : q \in DOMAIN fs /\ fs[q] = pre[q]

(* C3: with overwrite false, when chunk k is the first to find its output   *)
(* path existing, split_pdf raises FileExistsError and returns no list,     *)
(* chunk k and the chunks after it are not written, and exactly the chunks  *)
(* 0..k-1 it wrote before are on disk, nothing being rolled back; when no   *)
(* chunk finds its path existing the call does not fail.                    *)
C3_AbortsAtFirstExisting ==
    (InLoop /\ ~call.a.overwrite) =>
        LET parts == CeilDiv(SrcTotal, call.a.max_pages)
        IN IF \E idx \in 0..(parts - 1) : Taken(idx)
           THEN LET k == CHOOSE idx \in 0..(parts - 1) :
                            Taken(idx) /\ \A j \in 0..(idx - 1) : ~Taken(j)
                IN /\ ret.err = ErrOutputExists
                   /\ ret.outputs = <<>>
                   /\ Len(log) = k
                   /\ \A j \in 1..k :
                         /\ log[j].idx = j - 1
                         /\ log[j].path = PathOf(j - 1)
                         /\ PathOf(j - 1) \in DOMAIN fs
                         /\ fs[PathOf(j - 1)] = log[j].doc
                   /\ \A q \in DOMAIN fs \ DOMAIN pre :
                         fs[q].kind = "dir" \/ \E j \in 0..(k - 1) : q = PathOf(j)
                   /\ Unchanged(DOMAIN pre)
           ELSE ret.err = ""

(* a call stopped at its second chunk by an older file: the first chunk   *)
(* is on disk, the third was never reached                                  *)
C3_Witness ==
    /\ InLoop /\ ~call.a.overwrite
    /\ ret.err = ErrOutputExists
    /\ Len(log) = 1
    /\ CeilDiv(SrcTotal, call.a.max_pages) >= 3
    /\ Exists(pre, PathOf(1)) /\ pre[PathOf(1)] = OldDoc
    /\ fs[PathOf(0)] = log[1].doc

(* C4: a second run of split_pdf on the same source with the same           *)
(* configuration and overwrite false, after a first run that returned its   *)
(* outputs, raises FileExistsError and creates or modifies no file.         *)
C4_SecondRunFails ==
    ( /\ IsSplit /\ last.call.op = "split_pdf"
      /\ ~call.a.overwrite
      /\ call.a = [last.call.a EXCEPT !.overwrite = FALSE]
      /\ last.ret.err = "" /\ last.ret.outputs # <<>> )
    => /\ ret.err = ErrOutputExists
       /\ ret.outputs = <<>>
       /\ log = <<>>
       /\ fs = pre

(* the second of two identical runs without overwrite, the first having    *)
(* written several chunks                                                   *)
C4_Witness ==
    /\ IsSplit /\ last.call = call
    /\ ~call.a.overwrite
    /\ Len(last.ret.outputs) >= 2
    /\ ret.err = ErrOutputExists
    /\ fs = pre

(* no regular file was written: the filesystem differs from the one the    *)
(* call began with by new directories at most                               *)
NoFileWritten ==
    /\ log = <<>>
    /\ Unchanged(DOMAIN pre)
    /\ \A q \in DOMAIN fs \ DOMAIN pre : fs[q].kind = "dir"

Encrypted ==
    /\ IsSplit /\ call.a.max_pages >= 1
    /\ Resolve(pre, call.a.input_pdf) \in DOMAIN pre
    /\ SrcDoc.kind = "pdf" /\ SrcDoc.pw # <<>>

(* the same call on the same filesystem, were the source not encrypted *)
PlainTwin ==
    LET src == Resolve(pre, call.a.input_pdf)
    IN SplitPdf([pre EXCEPT ![src].pw = <<>>], [call.a EXCEPT !.password = None])

(* C5: on an encrypted source (maxPages valid) split_pdf raises the         *)
(* "please provide a password" error when no password is given and the      *)
(* "wrong password" error when authentication fails, in both cases before   *)
(* any chunk is written; with the right password it returns the result list *)
(* and writes the chunks that the same call returns and writes for an       *)
(* unencrypted source with the same pages.                                  *)
C5_Encrypted ==
    Encrypted =>
        /\ call.a.password = <<>> => (ret.err = ErrEncrypted /\ NoFileWritten)
        /\ (call.a.password # <<>> /\ call.a.password # SrcDoc.pw)
              => (ret.err = ErrWrongPassword /\ NoFileWritten)
        /\ call.a.password = SrcDoc.pw =>
              /\ ret.err \notin {ErrEncrypted, ErrWrongPassword}
              /\ ret = [err |-> PlainTwin.err, outputs |-> PlainTwin.outputs]
              /\ log = PlainTwin.log
              /\ fs = [PlainTwin.fs EXCEPT ![Resolve(pre, call.a.input_pdf)] = SrcDoc]

(* an encrypted source split into several chunks with the right password *)
C5_Witness ==
    /\ Encrypted /\ call.a.password = SrcDoc.pw
    /\ ret.err = "" /\ Len(ret.outputs) >= 2 /\ DistinctOutputs

(* C9: split_pdf with maxPages <= 0 raises the max_pages ValueError and     *)
(* leaves the filesystem as it was: the source is not opened, nothing is    *)
(* written and no output directory is created.                              *)
C9_InvalidLeavesFs ==
    (IsSplit /\ call.a.max_pages <= 0) =>
        /\ ret.err = ErrMaxPages
        /\ opened = <<>>
        /\ log = <<>>
        /\ fs = pre

(* C10: with overwrite false, whether split_pdf returns or raises, every    *)
(* file that was at an output path before the call is as it was, and no     *)
(* output path is written twice; the returned paths are pairwise distinct   *)
(* and the i-th holds the pages of chunk i.                                 *)
C10_NoOverwrite ==
    (IsSplit /\ ~call.a.overwrite) =>
        /\ Unchanged(DOMAIN pre)
        /\ \A i, j \in 1..Len(log) :
              i # j => Resolve(fs, log[i].path) # Resolve(fs, log[j].path)
        /\ \A i \in 1..Len(log) : ~Exists(pre, log[i].path)
        /\ ret.err = "" =>
              /\ DistinctOutputs
              /\ Len(ret.outputs) = Len(log)
              /\ \A i \in 1..Len(ret.outputs) :
                    /\ log[i].path = ret.outputs[i]
                    /\ log[i].idx = i - 1
                    /\ fs[Resolve(fs, ret.outputs[i])].pages =
                          SubSeq(SrcDoc.pages, (i - 1) * call.a.max_pages + 1,
                                 Min(i * call.a.max_pages, SrcTotal))

(* a call without overwrite that returned several paths while an older     *)
(* file lay in its output directory                                         *)
C10_Witness ==
    /\ IsSplit /\ ~call.a.overwrite
    /\ ret.err = "" /\ Len(ret.outputs) >= 2
    /\ \E q \in DOMAIN pre : pre[q] = OldDoc /\ Parent(q) = OutDir

(***************************************************************************)
(* Properties of find_pdfs and of the batch calls.                          *)
(***************************************************************************)
IsFind == call.op = "find_pdfs"

HasPdfSuffix(p) == Lower(Suffix(PathName(p))) = DotPdf

(* C6: find_pdfs with the default settings on a directory returns every     *)
(* regular file below it whose extension is .pdf in any letter case, each   *)
(* once (a symbolic link to it does not add a second), and no file with     *)
(* another extension.                                                       *)
C6_DefaultFindsAllPdfs ==
    ( /\ IsFind /\ Len(call.a.paths) = 1 /\ IsDir(fs, call.a.paths[1])
      /\ call.a.recursive /\ call.a.pattern = StarPdf )
    => LET dir == Resolve(fs, call.a.paths[1])
           pdfs == { q \in DOMAIN fs : /\ IsPrefix(dir, q)
                                       /\ fs[q].kind \in {"pdf", "other"}
                                       /\ HasPdfSuffix(q) }
       IN /\ \A q \in pdfs :
                Cardinality({i \in 1..Len(ret.outputs) :
                                Resolve(fs, ret.outputs[i]) = q}) = 1
          /\ \A i \in 1..Len(ret.outputs) : HasPdfSuffix(ret.outputs[i])

(* the list find_pdfs collected before removing duplicates *)
FoundList ==
    Found(fs, posix, call.a.paths, call.a.recursive, call.a.pattern, call.a.order)

(* the place of the first path of seq with the canonical form of p *)
FirstAt(seq, p) ==
    CHOOSE k \in 1..Len(seq) :
        /\ Resolve(fs, seq[k]) = Resolve(fs, p)
        /\ \A j \in 1..(k - 1) : Resolve(fs, seq[j]) # Resolve(fs, p)

(* C7: the list find_pdfs returns has no two paths with the same canonical  *)
(* form and one path for every canonical form among the found files: the    *)
(* first found path of that form, the paths standing in the order of those  *)
(* first occurrences; an input path that is neither a regular .pdf file nor *)
(* a directory adds nothing, and nothing is raised.                         *)
C7_UniqueStable ==
    IsFind =>
        LET out == ret.outputs
            found == FoundList
        IN /\ ret.err = ""
           /\ \A i, j \in 1..Len(out) :
                 i # j => Resolve(fs, out[i]) # Resolve(fs, out[j])
           /\ {Resolve(fs, out[i]) : i \in 1..Len(out)}
                 = {Resolve(fs, found[k]) : k \in 1..Len(found)}
           /\ \A i \in 1..Len(out) : out[i] = found[FirstAt(found, out[i])]
           /\ \A i, j \in 1..Len(out) :
                 i < j => FirstAt(found, out[i]) < FirstAt(found, out[j])
           /\ \A i \in 1..Len(out) :
                 \E n \in 1..Len(call.a.paths) :
                    LET p == call.a.paths[n]
                    IN \/ p = out[i] /\ IsFile(fs, p) /\ HasPdfSuffix(p)
                       \/ IsDir(fs, p) /\ IsPrefix(p, out[i])

(* a search that found one file under two paths and was also given a path  *)
(* that is no pdf and no directory                                          *)
C7_Witness ==
    /\ IsFind
    /\ Len(ret.outputs) >= 2
    /\ Len(FoundList) > Len(ret.outputs)
    /\ \E n \in 1..Len(call.a.paths) : call.a.paths[n] \in {Missing, TxtC}

IsBatch == call.op \in {"split_many", "batch"}

(* the pdfs the last batch call discovered, in discovery order *)
Discovered ==
    FindPdfs(pre, posix, call.a.inputs, call.a.recursive,
             IF call.op = "split_many" THEN StarPdf ELSE call.a.glob, call.order)

(* the chunks the batch call wrote for pdf *)
ChunksOf(pdf) == SelectSeq(log, LAMBDA e : e.src = pdf)

(* pdf was split in full: chunks 0..parts-1, in order *)
SplitInFull(pdf) ==
    LET c == ChunksOf(pdf)
    IN /\ Len(c) = CeilDiv(Len(pre[Resolve(pre, pdf)].pages), call.a.max_pages)
       /\ \A i \in 1..Len(c) : c[i].idx = i - 1

(* every chunk written is on disk, holding what the last write to its path *)
(* put there, and the files not written are as they were                    *)
NothingRolledBack ==
    /\ \A i \in 1..Len(log) :
          LET q == Resolve(fs, log[i].path)
              lastW == CHOOSE k \in 1..Len(log) :
                          /\ Resolve(fs, log[k].path) = q
                          /\ \A j \in (k + 1)..Len(log) : Resolve(fs, log[j].path) # q
          IN q \in DOMAIN fs /\ fs[q] = log[lastW].doc
    /\ \A q \in DOMAIN pre :
          (\A i \in 1..Len(log) : Resolve(fs, log[i].path) # q)
             => (q \in DOMAIN fs /\ fs[q] = pre[q])

(* C8: split_many and the batch command split the discovered pdfs one at a  *)
(* time in discovery order; when every split succeeds the result is the     *)
(* per-file result lists concatenated in that order; when the split of the  *)
(* k-th pdf raises, the error reaches the caller, no pdf after the k-th is  *)
(* opened or split, and what was written for the pdfs 1..k-1 and for the    *)
(* k-th before it failed stays on disk.                                     *)
C8_BatchInOrder ==
    IsBatch =>
        LET pdfs == Discovered
            k == Len(opened)
            at(p) == CHOOSE n \in 1..Len(pdfs) : pdfs[n] = p
        IN /\ k <= Len(pdfs)
           /\ opened = SubSeq(pdfs, 1, k)
           /\ \A i \in 1..Len(log) : \E n \in 1..k : log[i].src = pdfs[n]
           /\ \A i, j \in 1..Len(log) : i < j => at(log[i].src) <= at(log[j].src)
           /\ \A n \in 1..(k - 1) : SplitInFull(pdfs[n])
           /\ NothingRolledBack
           /\ ret.err = "" =>
                 /\ k = Len(pdfs)
                 /\ SplitInFull(pdfs[k])
                 /\ ret.outputs = [i \in 1..Len(log) |-> log[i].path]
           /\ ret.err = ExitNoPdfs => (call.op = "batch" /\ pdfs = <<>> /\ fs = pre)
           /\ ret.err \notin {"", ExitNoPdfs} =>
                 /\ k >= 1
                 /\ ret.outputs = <<>>
                 /\ ~SplitInFull(pdfs[k])

(* a batch of three pdfs that failed in the second, after one of its       *)
(* chunks was written: the third was never opened                           *)
C8_Witness ==
    /\ IsBatch
    /\ ret.err = ErrOutputExists
    /\ Len(Discovered) = 3 /\ Len(opened) = 2
    /\ ChunksOf(opened[1]) # <<>>
    /\ ChunksOf(opened[2]) # <<>>

====
